---------------------------- MODULE Spec2Model ----------------------------
(***************************************************************************)
(* The submission engine of conform (parse / getSubmissionContext /        *)
(* createSubmission / accept / reject, the list mutator and the            *)
(* validation-state tracker), as a state machine of one parse call.        *)
(*                                                                         *)
(* Representation.  A JavaScript value is a tagged record ("node").  A     *)
(* field name such as  todos[0].a  is kept in its decoded form, the        *)
(* sequence of keys  <<Name("todos"), Index(0), Name("a")>>  that          *)
(* getPaths() of ./formdata gives for it; the empty name '' is <<>>.       *)
(* A text value that holds JSON is kept as the value it parses to.         *)
(***************************************************************************)
EXTENDS Integers, Sequences, FiniteSets, TLC

VARIABLES body, caller, pc, context, received, resolved, calls, options, result,
          round, heap

vars == <<body, caller, pc, context, received, resolved, calls, options, result,
          round, heap>>

---------------------------------------------------------------------------
(* Bounds of the model *)

\* longest list built from the submitted entries
MaxLen == 3
\* most submitted entries of one ordinary field name in the entry family
MaxDup == 3
\* most submissions of one form, each taking up the state of the one before
MaxRounds == 3

---------------------------------------------------------------------------
(* JavaScript values *)

Undefined == [k |-> "undefined"]
Null == [k |-> "null"]
Str(s) == [k |-> "string", s |-> s]
JsonText(v) == [k |-> "string", json |-> v]
True == [k |-> "boolean", b |-> TRUE]
File == [k |-> "file"]
Arr(items, root) == [k |-> "array", items |-> items, root |-> root]
Obj(fields, root) == [k |-> "object", fields |-> fields, root |-> root]

NoFields == [n \in {} |-> Undefined]
EmptyArr == Arr(<<>>, Undefined)
EmptyObj == Obj(NoFields, Undefined)

IsArray(v) == v.k = "array"
IsPlainObject(v) == v.k = "object"
IsString(v) == v.k = "string"
IsNullish(v) == v.k \in {"undefined", "null"}

\* JavaScript truthiness: undefined, null and the empty string are falsy
Truthy(v) ==
    CASE v.k \in {"undefined", "null"} -> FALSE
      [] v.k = "boolean" -> v.b
      [] v.k = "string" -> IF "s" \in DOMAIN v THEN v.s # "" ELSE TRUE
      [] OTHER -> TRUE

\* a ?? b
Coalesce(a, b) == IF IsNullish(a) THEN b ELSE a

\* the finite function with the pairs of f, overridden by those of g
Assign(f, g) ==
    [p \in (DOMAIN f) \cup (DOMAIN g) |-> IF p \in DOMAIN g THEN g[p] ELSE f[p]]

Without(f, S) == [p \in (DOMAIN f) \ S |-> f[p]]

NoMap == [p \in {} |-> Undefined]

---------------------------------------------------------------------------
(* Path algebra (./formdata) *)

Name(n) == [name |-> n]
Index(i) == [index |-> i]
IsIndex(key) == "index" \in DOMAIN key

\* isPrefix(name, prefix): the keys of prefix begin the keys of name
IsPrefix(name, prefix) ==
    /\ Len(name) >= Len(prefix)
    /\ \A i \in 1..Len(prefix) : name[i] = prefix[i]

\* pointer[key]
Child(node, key) ==
    CASE IsArray(node) /\ IsIndex(key) ->
            IF key.index < Len(node.items) THEN node.items[key.index + 1] ELSE Undefined
      [] IsPlainObject(node) /\ ~IsIndex(key) ->
            IF key.name \in DOMAIN node.fields THEN node.fields[key.name] ELSE Undefined

\* pointer[key] = value; an index past the end leaves holes, which read as undefined
Put(node, key, value) ==
    CASE IsArray(node) /\ IsIndex(key) ->
            LET n == IF key.index < Len(node.items) THEN Len(node.items) ELSE key.index + 1
            IN  Arr([i \in 1..n |-> IF i = key.index + 1 THEN value
                                   ELSE IF i <= Len(node.items) THEN node.items[i]
                                   ELSE Undefined], node.root)
      [] IsPlainObject(node) /\ ~IsIndex(key) ->
            Obj([f \in DOMAIN node.fields \cup {key.name} |->
                    IF f = key.name THEN value ELSE node.fields[f]], node.root)

RECURSIVE GetValue(_, _)
GetValue(node, paths) ==
    IF paths = <<>> THEN node
    ELSE IF IsArray(node) \/ IsPlainObject(node)
         THEN GetValue(Child(node, Head(paths)), Tail(paths))
         ELSE Undefined

\* the walk of setValue with the leaf's new value given: a missing container on
\* the way is created, an array when the next key is an index, else an object
RECURSIVE PutValue(_, _, _)
PutValue(node, paths, value) ==
    IF paths = <<>> THEN value
    ELSE LET key == Head(paths)
             here == Coalesce(node, IF IsIndex(key) THEN EmptyArr ELSE EmptyObj)
         IN  Put(here, key, PutValue(Child(here, key), Tail(paths), value))

\* setValue(target, name, valueFn) with valueFn(current) = value; the empty
\* name has no key, so nothing is visited and nothing is set
SetValue(target, name, value) ==
    IF name = <<>> THEN target ELSE PutValue(target, name, value)

\* the resolve option that setState gives to flatten: a container stands for
\* the value kept under its root symbol, or null when it keeps none
StateResolve(data) ==
    IF IsPlainObject(data) \/ IsArray(data) THEN Coalesce(data.root, Null) ELSE data

\* flatten(data, { resolve: StateResolve, prefix }): the pairs <<name, value>>,
\* one for every node that resolves to something other than undefined
RECURSIVE FlattenEntries(_, _)
FlattenEntries(data, prefix) ==
    LET own == IF StateResolve(data) # Undefined
               THEN {<<prefix, StateResolve(data)>>} ELSE {}
    IN  IF IsArray(data)
        THEN own \cup UNION {FlattenEntries(data.items[i], Append(prefix, Index(i - 1)))
                                : i \in 1..Len(data.items)}
        ELSE IF IsPlainObject(data)
        THEN own \cup UNION {FlattenEntries(data.fields[f], Append(prefix, Name(f)))
                                : f \in DOMAIN data.fields}
        ELSE own

Flatten(data, prefix) ==
    LET entries == FlattenEntries(data, prefix)
    IN  [p \in {e[1] : e \in entries} |-> (CHOOSE e \in entries : e[1] = p)[2]]

\* simplify(value): empty arrays, empty objects, null and undefined are pruned;
\* Undefined when nothing remains
RECURSIVE Simplify(_)
Simplify(value) ==
    IF IsPlainObject(value)
    THEN LET kept == {f \in DOMAIN value.fields : Simplify(value.fields[f]) # Undefined}
         IN  IF kept = {} THEN Undefined
             ELSE Obj([f \in kept |-> Simplify(value.fields[f])], Undefined)
    ELSE IF IsArray(value)
    THEN IF value.items = <<>> THEN Undefined
         ELSE Arr([i \in 1..Len(value.items) |-> Simplify(value.items[i])], Undefined)
    ELSE IF value = Null THEN Undefined
    ELSE value

\* simplify on an error map: a name with no message is pruned
SimplifyError(error) ==
    LET kept == {p \in DOMAIN error : error[p] # <<>>}
    IN  [p \in kept |-> error[p]]

\* { ...result, error: simplify(error) }: simplify gives undefined when no name
\* remains, and the result then carries no error
WithError(res, error) ==
    IF DOMAIN SimplifyError(error) = {} THEN res
    ELSE res @@ [error |-> SimplifyError(error)]

---------------------------------------------------------------------------
(* List mutator *)

Min(a, b) == IF a < b THEN a ELSE b
Max(a, b) == IF a > b THEN a ELSE b

\* Array.prototype.splice(start, deleteCount, ...items) as updateList uses it:
\* a negative start counts from the end, start and deleteCount are clamped
Splice(list, start, deleteCount, items) ==
    LET len == Len(list)
        at == IF start < 0 THEN Max(len + start, 0) ELSE Min(start, len)
        count == Min(Max(deleteCount, 0), len - at)
    IN  [list |-> SubSeq(list, 1, at) \o items \o SubSeq(list, at + count + 1, len),
         removed |-> SubSeq(list, at + 1, at + count)]

ListOperations == {"insert", "prepend", "append", "replace", "remove", "reorder"}

\* updateList with the default put first on append, as on prepend
UpdateListUnshifts(list, payload) ==
    CASE payload.operation \in {"prepend", "append"} -> <<payload.defaultValue>> \o list
      [] payload.operation = "insert" ->
            Splice(list, IF payload.hasIndex THEN payload.index ELSE Len(list), 0,
                   <<payload.defaultValue>>).list
      [] payload.operation = "replace" ->
            Splice(list, payload.index, 1, <<payload.defaultValue>>).list
      [] payload.operation = "remove" -> Splice(list, payload.index, 1, <<>>).list
      [] payload.operation = "reorder" ->
            LET taken == Splice(list, payload.from, 1, <<>>)
            IN  Splice(taken.list, payload.to, 0, taken.removed).list

\* updateList with a reorder that counts the target index in the list as it
\* was before the item was taken out
UpdateListShifted(list, payload) ==
    CASE payload.operation = "prepend" -> <<payload.defaultValue>> \o list
      [] payload.operation = "append" -> Append(list, payload.defaultValue)
      [] payload.operation = "insert" ->
            Splice(list, IF payload.hasIndex THEN payload.index ELSE Len(list), 0,
                   <<payload.defaultValue>>).list
      [] payload.operation = "replace" ->
            Splice(list, payload.index, 1, <<payload.defaultValue>>).list
      [] payload.operation = "remove" -> Splice(list, payload.index, 1, <<>>).list
      [] payload.operation = "reorder" ->
            LET taken == Splice(list, payload.from, 1, <<>>)
            IN  Splice(taken.list,
                       IF payload.to > payload.from THEN payload.to - 1 ELSE payload.to,
                       0, taken.removed).list

\* updateList(list, payload) on the items of an array
UpdateList(list, payload) ==
    CASE payload.operation = "prepend" -> <<payload.defaultValue>> \o list
      [] payload.operation = "append" -> Append(list, payload.defaultValue)
      [] payload.operation = "insert" ->
            Splice(list, IF payload.hasIndex THEN payload.index ELSE Len(list), 0,
                   <<payload.defaultValue>>).list
      [] payload.operation = "replace" ->
            Splice(list, payload.index, 1, <<payload.defaultValue>>).list
      [] payload.operation = "remove" -> Splice(list, payload.index, 1, <<>>).list
      [] payload.operation = "reorder" ->
            LET taken == Splice(list, payload.from, 1, <<>>)
            IN  Splice(taken.list, payload.to, 0, taken.removed).list

\* the list that the updater of setListValue / setListState works on
ListOf(value) == Coalesce(value, EmptyArr)

\* invariant(Array.isArray(list), ...) of updateList, and its default branch
UpdateListThrows(value, payload) ==
    \/ ~IsArray(ListOf(value))
    \/ payload.operation \notin ListOperations

\* setListValue(data, payload)
SetListValue(data, payload) ==
    LET list == ListOf(GetValue(data, payload.name))
    IN  SetValue(data, payload.name, Arr(UpdateList(list.items, payload), list.root))

---------------------------------------------------------------------------
(* Validation-state tracker *)

\* the names of fields and sub-fields in the model, in localeCompare order
NameOrder == <<"a", "title", "todos">>
NameRank(n) == CHOOSE i \in 1..Len(NameOrder) : NameOrder[i] = n

\* prev.localeCompare(next) < 0 on two names, by their keys: a name sorts
\* after its own prefixes, ".x" before "[i]", and indices by their digits
RECURSIVE LocaleBefore(_, _)
LocaleBefore(prev, next) ==
    IF prev = <<>> THEN next # <<>>
    ELSE IF next = <<>> THEN FALSE
    ELSE IF Head(prev) = Head(next) THEN LocaleBefore(Tail(prev), Tail(next))
    ELSE IF IsIndex(Head(prev)) /\ IsIndex(Head(next))
         THEN Head(prev).index < Head(next).index
    ELSE IF IsIndex(Head(prev)) THEN FALSE
    ELSE IF IsIndex(Head(next)) THEN TRUE
    ELSE NameRank(Head(prev).name) < NameRank(Head(next).name)

\* Object.keys(state).sort((prev, next) => next.localeCompare(prev))
RECURSIVE SortDesc(_)
SortDesc(keys) ==
    IF keys = {} THEN <<>>
    ELSE LET first == CHOOSE k \in keys : \A o \in keys \ {k} : LocaleBefore(o, k)
         IN  <<first>> \o SortDesc(keys \ {first})

\* the loop of setState with a branch for a container already in the tree that
\* leaves the entry's own value out
RECURSIVE CollectStateDroppingRoot(_, _, _, _)
CollectStateDroppingRoot(keys, state, name, target) ==
    IF keys = <<>> THEN target
    ELSE LET key == Head(keys)
             currentValue == GetValue(target, key)
             next == IF IsPrefix(key, name) /\ key # name
                     THEN SetValue(target, key,
                                   IF currentValue = Undefined THEN state[key]
                                   ELSE currentValue)
                     ELSE target
         IN  CollectStateDroppingRoot(Tail(keys), state, name, next)

\* the loop of setState: every entry under name, other than name itself, is
\* moved into the tree target; an entry met after its own sub-entries is kept
\* under the root symbol of the container they made
RECURSIVE CollectState(_, _, _, _)
CollectState(keys, state, name, target) ==
    IF keys = <<>> THEN target
    ELSE LET key == Head(keys)
             currentValue == GetValue(target, key)
             next == IF IsPrefix(key, name) /\ key # name
                     THEN SetValue(target, key,
                                   IF currentValue = Undefined THEN state[key]
                                   ELSE [currentValue EXCEPT !.root = state[key]])
                     ELSE target
         IN  CollectState(Tail(keys), state, name, next)

StateTarget(state, name) == CollectState(SortDesc(DOMAIN state), state, name, EmptyObj)

\* the value that setState hands to valueFn
StateValue(state, name) == GetValue(StateTarget(state, name), name)

\* setState without the delete of its loop: the entries under name stay
SetStateKeeping(state, name, value) == Assign(state, Flatten(value, name))

\* setState(state, name, valueFn) with valueFn(StateValue(state, name)) = value
SetState(state, name, value) ==
    Assign(Without(state, {key \in DOMAIN state : IsPrefix(key, name) /\ key # name}),
           Flatten(value, name))

\* what the updater of setListState puts in a new slot: getDefaultValue?.()
\* with no getDefaultValue, as parse calls it
StateDefault(payload) ==
    IF payload.operation \in {"append", "prepend", "insert", "replace"}
    THEN [payload EXCEPT !.defaultValue = Undefined]
    ELSE payload

\* setListState(state, payload)
SetListState(state, payload) ==
    LET list == ListOf(StateValue(state, payload.name))
    IN  SetState(state, payload.name,
                 Arr(UpdateList(list.items, StateDefault(payload)), list.root))

---------------------------------------------------------------------------
(* Submission engine *)

INTENT == <<Name("__intent__")>>
STATE_NAME == <<Name("__state__")>>

\* body.get(name): the value of the first entry of that name, or null
BodyGet(entries, name) ==
    IF \E i \in 1..Len(entries) : entries[i].name = name
    THEN entries[CHOOSE i \in 1..Len(entries) :
                    /\ entries[i].name = name
                    /\ \A j \in 1..(i - 1) : entries[j].name # name].value
    ELSE Null

\* the updater that getSubmissionContext gives to setValue for an entry
MergeEntry(prev, next) ==
    IF ~Truthy(prev) THEN next
    ELSE IF IsArray(prev) THEN Arr(Append(prev.items, next), prev.root)
    ELSE Arr(<<prev, next>>, Undefined)

\* the loop of getSubmissionContext over body.entries()
RECURSIVE CollectEntries(_, _)
CollectEntries(entries, acc) ==
    IF entries = <<>> THEN acc
    ELSE LET name == Head(entries).name
             next == Head(entries).value
         IN  IF name = INTENT \/ name = STATE_NAME
             THEN CollectEntries(Tail(entries), acc)
             ELSE CollectEntries(Tail(entries),
                    [payload |-> SetValue(acc.payload, name,
                                          MergeEntry(GetValue(acc.payload, name), next)),
                     fields |-> Append(acc.fields, name)])

\* the invariant of getSubmissionContext on the two reserved names
ReservedNameThrows(entries) ==
    ~ /\ (IsString(BodyGet(entries, INTENT)) \/ BodyGet(entries, INTENT) = Null)
      /\ (IsString(BodyGet(entries, STATE_NAME)) \/ BodyGet(entries, STATE_NAME) = Null)

IntentTypes == {"validate", "reset", "list"}

\* getIntent(intent) ends with throw new Error('Unknown intent')
GetIntentThrows(intent) ==
    /\ Truthy(intent)
    /\ intent.json.type \notin IntentTypes

\* getIntent(intent)
GetIntent(intent) ==
    IF ~Truthy(intent) THEN Null
    ELSE [type |-> intent.json.type, payload |-> intent.json.payload]

GetSubmissionContextThrows(entries) ==
    \/ ReservedNameThrows(entries)
    \/ GetIntentThrows(BodyGet(entries, INTENT))

\* getSubmissionContext(body)
GetSubmissionContext(entries) ==
    LET intent == BodyGet(entries, INTENT)
        state == BodyGet(entries, STATE_NAME)
        collected == CollectEntries(entries, [payload |-> EmptyObj, fields |-> <<>>])
    IN  [payload |-> collected.payload,
         intent |-> GetIntent(intent),
         state |-> IF Truthy(state) THEN state.json ELSE [validated |-> NoMap],
         fields |-> collected.fields]

\* state.validated[name]
Validated(state, name) ==
    IF name \in DOMAIN state.validated THEN state.validated[name] ELSE Undefined

\* state.validated[name] = true
MarkValidated(validated, names) ==
    [p \in DOMAIN validated \cup names |-> IF p \in names THEN True ELSE validated[p]]

\* case 'reset' of parse with a whole-form branch that empties nothing but the
\* validation state
ResetIntentKeepingFields(ctx) ==
    LET name == ctx.intent.payload.name
    IN  IF name # <<>>
        THEN [ctx EXCEPT
                !.payload = SetValue(ctx.payload, name, Undefined),
                !.state.validated =
                    IF ~ctx.intent.payload.validated
                    THEN Without(SetState(ctx.state.validated, name, Undefined), {name})
                    ELSE @]
        ELSE [ctx EXCEPT
                !.state.validated = IF ~ctx.intent.payload.validated THEN NoMap ELSE @]

\* case 'reset' of parse
ResetIntent(ctx) ==
    LET name == ctx.intent.payload.name
    IN  IF name # <<>>
        THEN [ctx EXCEPT
                !.payload = SetValue(ctx.payload, name, Undefined),
                !.state.validated =
                    IF ~ctx.intent.payload.validated
                    THEN Without(SetState(ctx.state.validated, name, Undefined), {name})
                    ELSE @]
        ELSE [ctx EXCEPT
                !.payload = EmptyObj,
                !.state.validated = IF ~ctx.intent.payload.validated THEN NoMap ELSE @]

\* case 'list' of parse without its last assignment, validated[name] = true
ListIntentUnmarked(ctx) ==
    [ctx EXCEPT
        !.payload = SetListValue(ctx.payload, ctx.intent.payload),
        !.state.validated = SetListState(ctx.state.validated, ctx.intent.payload)]

\* case 'list' of parse
ListIntent(ctx) ==
    [ctx EXCEPT
        !.payload = SetListValue(ctx.payload, ctx.intent.payload),
        !.state.validated =
            MarkValidated(SetListState(ctx.state.validated, ctx.intent.payload),
                          {ctx.intent.payload.name})]

\* updateList throws under setListValue or under setListState
ListIntentThrows(ctx) ==
    \/ UpdateListThrows(GetValue(ctx.payload, ctx.intent.payload.name), ctx.intent.payload)
    \/ UpdateListThrows(StateValue(ctx.state.validated, ctx.intent.payload.name),
                        ctx.intent.payload)

ApplyIntentThrows(ctx) ==
    /\ ctx.intent # Null
    /\ ctx.intent.type = "list"
    /\ ListIntentThrows(ctx)

\* the switch of parse with a validate case that marks nothing
ApplyIntentToUnmarked(ctx) ==
    IF ctx.intent = Null THEN ctx
    ELSE CASE ctx.intent.type = "validate" -> ctx
           [] ctx.intent.type = "reset" -> ResetIntent(ctx)
           [] ctx.intent.type = "list" -> ListIntent(ctx)

\* the switch of parse with a validate case that marks the submitted fields too
ApplyIntentToTouching(ctx) ==
    IF ctx.intent = Null THEN ctx
    ELSE CASE ctx.intent.type = "validate" ->
                [ctx EXCEPT !.state.validated =
                    MarkValidated(@, {ctx.intent.payload.text}
                                        \cup {ctx.fields[i] : i \in 1..Len(ctx.fields)})]
           [] ctx.intent.type = "reset" -> ResetIntent(ctx)
           [] ctx.intent.type = "list" -> ListIntent(ctx)

\* the switch of parse on context.intent.type
ApplyIntentTo(ctx) ==
    IF ctx.intent = Null THEN ctx
    ELSE CASE ctx.intent.type = "validate" ->
                [ctx EXCEPT !.state.validated = MarkValidated(@, {ctx.intent.payload.text})]
           [] ctx.intent.type = "reset" -> ResetIntent(ctx)
           [] ctx.intent.type = "list" -> ListIntent(ctx)

\* the second argument of options.resolve with the payload of every intent,
\* that of validate too, put through JSON.stringify
IntentTokenEncoded(ctx) ==
    IF ctx.intent = Null THEN Str("submit")
    ELSE [k |-> "string", type |-> ctx.intent.type, json |-> ctx.intent.payload]

\* the second argument of options.resolve: 'submit', or the type, a slash and
\* the payload, which is the raw name for validate and JSON.stringify(payload)
\* for the other intents
IntentToken(ctx) ==
    IF ctx.intent = Null THEN Str("submit")
    ELSE IF ctx.intent.type = "validate"
    THEN [k |-> "string", type |-> ctx.intent.type, raw |-> ctx.intent.payload.text]
    ELSE [k |-> "string", type |-> ctx.intent.type, json |-> ctx.intent.payload]

\* resolved.error ?? {}
ErrorOf(res) == IF "error" \in DOMAIN res THEN res.error ELSE NoMap

\* resolved.value ?? null
ValueOf(res) == IF "value" \in DOMAIN res THEN Coalesce(res.value, Null) ELSE Null

\* mergeResolveResult marking the submitted fields alone
MergedNamesFieldsOnly(ctx, error) ==
    IF ctx.intent = Null THEN {ctx.fields[i] : i \in 1..Len(ctx.fields)} ELSE {}

\* mergeResolveResult marking without regard to the intent
MergedNamesAnyIntent(ctx, error) ==
    {ctx.fields[i] : i \in 1..Len(ctx.fields)} \cup DOMAIN error

\* the names that mergeResolveResult marks as validated
MergedNames(ctx, error) ==
    IF ctx.intent = Null
    THEN {ctx.fields[i] : i \in 1..Len(ctx.fields)} \cup DOMAIN error
    ELSE {}

\* mergeResolveResult(resolved), up to createSubmission
MergeResolveResultOf(ctx, res) ==
    [payload |-> ctx.payload,
     intent |-> ctx.intent,
     state |-> [ctx.state EXCEPT
                    !.validated = MarkValidated(@, MergedNames(ctx, ErrorOf(res)))],
     fields |-> ctx.fields,
     value |-> ValueOf(res),
     error |-> ErrorOf(res)]

\* createSubmission(context): the Submission, without its two methods
CreateSubmission(ctx) ==
    IF ctx.intent # Null
    THEN [type |-> "update", payload |-> ctx.payload, value |-> Null, error |-> ctx.error]
    ELSE [type |-> "submit", payload |-> ctx.payload, value |-> ctx.value,
          error |-> ctx.error]

\* acceptSubmission(context, options)
AcceptSubmission(ctx, opts) ==
    IF opts # Undefined /\ opts.resetForm
    THEN [status |-> "success"]
    ELSE WithError([status |-> "success",
                    initialValue |-> Coalesce(Simplify(ctx.payload), EmptyObj),
                    state |-> ctx.state],
                   ctx.error)

\* { '': options?.formErrors ?? [], ...options?.fieldErrors }
InitialErrors(opts) ==
    IF opts = Undefined THEN (<<>> :> <<>>)
    ELSE Assign((<<>> :> opts.formErrors), opts.fieldErrors)

\* the reducer of rejectSubmission without its test of the validation state
KeepsErrorUnfiltered(ctx, name) == Len(ctx.error[name]) > 0

\* the condition under which the reducer of rejectSubmission keeps an entry
KeepsError(ctx, name) ==
    /\ Len(ctx.error[name]) > 0
    /\ Truthy(Validated(ctx.state, name))

\* the reduce of rejectSubmission keeping every entry of context.error
RejectErrorsAllKept(ctx, opts) ==
    LET initial == InitialErrors(opts)
        kept == DOMAIN ctx.error
    IN  [name \in DOMAIN initial \cup kept |->
            IF name \in kept
            THEN (IF name \in DOMAIN initial THEN initial[name] ELSE <<>>) \o ctx.error[name]
            ELSE initial[name]]

\* the reduce of rejectSubmission over Object.entries(context.error)
RejectErrors(ctx, opts) ==
    LET initial == InitialErrors(opts)
        kept == {name \in DOMAIN ctx.error : KeepsError(ctx, name)}
    IN  [name \in DOMAIN initial \cup kept |->
            IF name \in kept
            THEN (IF name \in DOMAIN initial THEN initial[name] ELSE <<>>) \o ctx.error[name]
            ELSE initial[name]]

\* rejectSubmission(context, options)
RejectSubmission(ctx, opts) ==
    WithError([status |-> IF ctx.intent # Null THEN "updated" ELSE "error",
               intent |-> IF ctx.intent # Null THEN ctx.intent ELSE Undefined,
               initialValue |-> Coalesce(Simplify(ctx.payload), EmptyObj),
               state |-> ctx.state],
              RejectErrors(ctx, opts))

---------------------------------------------------------------------------
(* The inputs of one parse call: the submitted entries and the caller *)

Title == <<Name("title")>>
Todos == <<Name("todos")>>
Item(i) == <<Name("todos"), Index(i)>>
Sub(i) == <<Name("todos"), Index(i), Name("a")>>

Letters == <<"a", "b", "c", "d", "e", "f">>

Entry(name, value) == [name |-> name, value |-> value]

Flags(names) == [validated |-> [p \in names |-> True]]

\* the payload of a validate intent is the name itself (kept in a record of
\* its own, so that it compares with the payloads of the other intents)
ValidateIntent(name) == [type |-> "validate", payload |-> [text |-> name]]
ResetIntentOf(name, validated) ==
    [type |-> "reset", payload |-> [name |-> name, validated |-> validated]]
ListIntentOf(operation, hasIndex, index, from, to) ==
    [type |-> "list",
     payload |-> [name |-> Todos, operation |-> operation, defaultValue |-> Str("new"),
                  hasIndex |-> hasIndex, index |-> index, from |-> from, to |-> to]]
UnknownIntent == [type |-> "unknown", payload |-> [text |-> Title]]

IntentEntry(intent) == <<Entry(INTENT, JsonText(intent))>>
StateEntry(state) == <<Entry(STATE_NAME, JsonText(state))>>

Required == <<"Required">>

\* what the caller's resolve returns
NoErrors == [value |-> Str("ok")]
Errors(error) == [error |-> error]

FieldErrorMaps ==
    {[p \in names |-> Required] : names \in SUBSET {<<>>, Title, Item(0)}}
        \cup {(Title :> <<>>)}

\* what the caller passes to reject and to accept
RejectOptions ==
    {Undefined,
     [formErrors |-> <<"Failed">>, fieldErrors |-> NoMap],
     [formErrors |-> <<>>, fieldErrors |-> (Title :> <<"Taken">>)],
     [formErrors |-> <<"Failed">>, fieldErrors |-> (Item(0) :> <<"Taken">>)]}
AcceptOptions == {Undefined, [resetForm |-> FALSE], [resetForm |-> TRUE]}

PlainCaller == [resolve |-> NoErrors, reject |-> {Undefined}, accept |-> {Undefined}]

\* submissions of a form with a title and a first to-do item
FormBodies ==
    {fields \o intent \o state :
        fields \in {<<>>, <<Entry(Title, Str("x"))>>, <<Entry(Item(0), Str("a"))>>,
                    <<Entry(Title, Str("x")), Entry(Item(0), Str("a"))>>},
        intent \in {<<>>, <<Entry(INTENT, Str(""))>>}
                    \cup {IntentEntry(i) :
                            i \in {ValidateIntent(Title), ValidateIntent(Item(0)),
                                   ResetIntentOf(<<>>, FALSE), ResetIntentOf(<<>>, TRUE),
                                   ResetIntentOf(Title, FALSE), ResetIntentOf(Title, TRUE),
                                   ListIntentOf("append", FALSE, 0, 0, 0), UnknownIntent}},
        state \in {<<>>} \cup {StateEntry(Flags(names)) : names \in SUBSET {Title, Item(0)}}}

FormCallers ==
    {[resolve |-> r, reject |-> RejectOptions, accept |-> AcceptOptions] :
        r \in {NoErrors} \cup {Errors(e) : e \in FieldErrorMaps}}

InitForm ==
    /\ body \in FormBodies
    /\ caller \in FormCallers

\* list intents on todos, over lists of every length up to MaxLen and over a
\* todos field that holds one text value
ItemEntries(n) == [i \in 1..n |-> Entry(Item(i - 1), Str(Letters[i]))]

ListIntents ==
    {ListIntentOf("prepend", FALSE, 0, 0, 0), ListIntentOf("append", FALSE, 0, 0, 0),
     ListIntentOf("insert", FALSE, 0, 0, 0), ListIntentOf("unknown", FALSE, 0, 0, 0)}
        \cup {ListIntentOf("insert", TRUE, i, 0, 0) : i \in 0..MaxLen}
        \cup {ListIntentOf(op, TRUE, i, 0, 0) : op \in {"replace", "remove"}, i \in -1..MaxLen}
        \cup {ListIntentOf("reorder", FALSE, 0, from, to) :
                from \in 0..(MaxLen - 1), to \in 0..(MaxLen - 1)}

ListStateNames == {Todos, Sub(0)} \cup {Item(i) : i \in 0..(MaxLen - 1)}

ListBodies ==
    {fields \o IntentEntry(intent) \o StateEntry(Flags(names)) :
        fields \in {ItemEntries(n) : n \in 0..MaxLen} \cup {<<Entry(Todos, Str("a"))>>},
        intent \in ListIntents,
        names \in SUBSET ListStateNames}

InitList ==
    /\ body \in ListBodies
    /\ caller = PlainCaller

\* list intents that put a new item in a list of objects, the caller giving an
\* object as the default value
DefaultItem == Obj(("a" :> Str("new")), Undefined)

SubEntries(n) == [i \in 1..n |-> Entry(Sub(i - 1), Str(Letters[i]))]

DefaultIntents ==
    {[intent EXCEPT !.payload.defaultValue = DefaultItem] :
        intent \in {ListIntentOf("prepend", FALSE, 0, 0, 0),
                    ListIntentOf("append", FALSE, 0, 0, 0),
                    ListIntentOf("insert", FALSE, 0, 0, 0)}
                    \cup {ListIntentOf(op, TRUE, i, 0, 0) :
                            op \in {"insert", "replace"}, i \in 0..(MaxLen - 1)}}

DefaultStateNames == {Todos, Item(0), Item(1), Item(2), Sub(0), Sub(1)}

DefaultBodies ==
    {SubEntries(n) \o IntentEntry(intent) \o StateEntry(Flags(names)) :
        n \in 0..(MaxLen - 1),
        intent \in DefaultIntents,
        names \in SUBSET DefaultStateNames}

InitDefault ==
    /\ body \in DefaultBodies
    /\ caller = PlainCaller

\* reset intents on the title, on the list, on one item and on one sub-field,
\* over validation states with entries in and out of the list
ResetNames == {Title, Todos, Item(0), Sub(0)}

ResetStateNames == {Title, Todos, Item(0), Item(1), Sub(0), Sub(1)}

\* the fields of a form and the names a reset of that form can carry: the
\* items are texts in the first form and objects in the second
ResetForms ==
    {[fields |-> <<>>, names |-> ResetNames],
     [fields |-> <<Entry(Title, Str("x"))>> \o ItemEntries(2),
      names |-> {Title, Todos, Item(0)}],
     [fields |-> <<Entry(Sub(0), Str("a")), Entry(Sub(1), Str("b"))>>,
      names |-> ResetNames]}

ResetBodiesOf(form) ==
    {form.fields \o IntentEntry(ResetIntentOf(name, validated))
                \o StateEntry(Flags(names)) :
        name \in form.names,
        validated \in BOOLEAN,
        names \in SUBSET ResetStateNames}

ResetBodies == UNION {ResetBodiesOf(form) : form \in ResetForms}

InitReset ==
    /\ body \in ResetBodies
    /\ caller = PlainCaller

\* entries that repeat a name: up to MaxDup values of title, and the two
\* reserved names with a text entry, a file entry, or both in either order
RECURSIVE Tuples(_, _)
Tuples(S, n) ==
    IF n = 0 THEN {<<>>}
    ELSE {<<>>} \cup {<<x>> \o t : x \in S, t \in Tuples(S, n - 1)}

ReservedEntries(name, text) ==
    {<<>>, <<Entry(name, text)>>, <<Entry(name, File)>>,
     <<Entry(name, text), Entry(name, File)>>, <<Entry(name, File), Entry(name, text)>>}

EntryBodies ==
    {fields \o intent \o state :
        fields \in Tuples({Entry(Title, Str(v)) : v \in {"", "a", "b"}}, MaxDup),
        intent \in ReservedEntries(INTENT, JsonText(ValidateIntent(Title))),
        state \in ReservedEntries(STATE_NAME, JsonText(Flags({Title})))}

InitEntries ==
    /\ body \in EntryBodies
    /\ caller = PlainCaller

---------------------------------------------------------------------------
(* One parse call, step by step *)

\* parse has been entered and nothing of it has run
Entered ==
    /\ pc = "start"
    /\ context = Undefined
    /\ received = Undefined
    /\ resolved = Undefined
    /\ calls = 0
    /\ options = Undefined
    /\ result = Undefined

Init ==
    /\ InitForm \/ InitList \/ InitDefault \/ InitReset \/ InitEntries
    /\ Entered
    /\ round = 1
    /\ heap = NoMap

\* const context = getSubmissionContext(payload)
GetContext ==
    /\ pc = "start"
    /\ IF GetSubmissionContextThrows(body)
       THEN /\ pc' = "thrown"
            /\ UNCHANGED context
       ELSE /\ pc' = "intent"
            /\ context' = GetSubmissionContext(body)
    /\ UNCHANGED <<body, caller, received, resolved, calls, options, result, round, heap>>

\* parse going on to resolve when the intent throws
ApplyIntentSwallowing ==
    /\ pc = "intent"
    /\ pc' = "resolve"
    /\ context' = IF ApplyIntentThrows(context) THEN context ELSE ApplyIntentTo(context)
    /\ UNCHANGED <<body, caller, received, resolved, calls, options, result, round, heap>>

\* if (context.intent) { switch (context.intent.type) ... }
ApplyIntent ==
    /\ pc = "intent"
    /\ IF ApplyIntentThrows(context)
       THEN /\ pc' = "thrown"
            /\ UNCHANGED context
       ELSE /\ pc' = "resolve"
            /\ context' = ApplyIntentTo(context)
    /\ UNCHANGED <<body, caller, received, resolved, calls, options, result, round, heap>>

\* const result = options.resolve(context.payload, ...)
CallResolve ==
    /\ pc = "resolve"
    /\ calls' = calls + 1
    /\ resolved' = caller.resolve
    /\ pc' = "resolved"
    /\ received' = [payload |-> context.payload, intent |-> IntentToken(context)]
    /\ UNCHANGED <<body, caller, context, options, result, round, heap>>

\* mergeResolveResult(result), at once or when the promise settles
MergeResolveResult ==
    /\ pc = "resolved"
    /\ context' = MergeResolveResultOf(context, resolved)
    /\ pc' = "submission"
    /\ UNCHANGED <<body, caller, received, resolved, calls, options, result, round, heap>>

\* submission.reject(options)
Reject(opts) ==
    /\ pc = "submission"
    /\ options' = opts
    /\ result' = RejectSubmission(context, opts)
    /\ pc' = "rejected"
    /\ UNCHANGED <<body, caller, context, received, resolved, calls, round, heap>>

\* submission.accept(options)
Accept(opts) ==
    /\ pc = "submission"
    /\ options' = opts
    /\ result' = AcceptSubmission(context, opts)
    /\ pc' = "accepted"
    /\ UNCHANGED <<body, caller, context, received, resolved, calls, round, heap>>

Next ==
    \/ GetContext
    \/ ApplyIntent
    \/ CallResolve
    \/ MergeResolveResult
    \/ \E opts \in caller.reject : Reject(opts)
    \/ \E opts \in caller.accept : Accept(opts)

Spec == Init /\ [][Next]_vars

---------------------------------------------------------------------------
(* Submissions of one form in a row: the client sends back, in the state
   entry, the state of the result it was given *)

\* JSON.stringify(result.state): an entry with the value undefined is left out
Serialised(state) ==
    JsonText([validated |->
                [p \in {q \in DOMAIN state.validated : state.validated[q] # Undefined}
                    |-> state.validated[p]]])

ChainFields == <<Entry(Title, Str("x"))>> \o ItemEntries(2)

\* what a submission of the form can be: its fields and its intent
ChainSteps ==
    {[fields |-> fields, intent |-> <<>>] : fields \in {<<>>, ChainFields}}
        \cup {[fields |-> ChainFields, intent |-> IntentEntry(intent)] :
                intent \in {ValidateIntent(Item(0)),
                            ResetIntentOf(<<>>, FALSE), ResetIntentOf(<<>>, TRUE),
                            ResetIntentOf(Title, FALSE), ResetIntentOf(Item(0), FALSE),
                            ResetIntentOf(Todos, FALSE), ResetIntentOf(Todos, TRUE),
                            ListIntentOf("prepend", FALSE, 0, 0, 0),
                            ListIntentOf("append", FALSE, 0, 0, 0),
                            ListIntentOf("insert", TRUE, 1, 0, 0),
                            ListIntentOf("replace", TRUE, 0, 0, 0),
                            ListIntentOf("remove", TRUE, 0, 0, 0),
                            ListIntentOf("remove", TRUE, 1, 0, 0),
                            ListIntentOf("reorder", FALSE, 0, 0, 1),
                            ListIntentOf("reorder", FALSE, 0, 1, 0)}}
        \cup {[fields |-> <<Entry(Title, Str("x"))>>,
                intent |-> IntentEntry([ListIntentOf("append", FALSE, 0, 0, 0)
                                            EXCEPT !.payload.name = Sub(0)])]}

ChainCaller ==
    [resolve |-> Errors((Todos :> Required)), reject |-> {Undefined},
     accept |-> {Undefined}]

InitChain ==
    /\ body \in {step.fields \o step.intent : step \in ChainSteps}
    /\ caller = ChainCaller
    /\ Entered
    /\ round = 1
    /\ heap = NoMap

\* the form is submitted again with the state of the result in its state entry
Resubmit ==
    /\ pc \in {"rejected", "accepted"}
    /\ "state" \in DOMAIN result
    /\ round < MaxRounds
    /\ \E step \in ChainSteps :
            body' = step.fields \o step.intent
                        \o <<Entry(STATE_NAME, Serialised(result.state))>>
    /\ round' = round + 1
    /\ pc' = "start"
    /\ context' = Undefined
    /\ received' = Undefined
    /\ resolved' = Undefined
    /\ calls' = 0
    /\ options' = Undefined
    /\ result' = Undefined
    /\ UNCHANGED <<caller, heap>>

NextChain ==
    \/ Next
    \/ Resubmit

ChainSpec == InitChain /\ [][NextChain]_vars

---------------------------------------------------------------------------
(* Two parse calls whose resolve returns a promise: each variable holds one
   value per call, and heap holds the validation-state objects, which the
   contexts refer to and mergeResolveResult writes to when a promise settles *)

Calls == {1, 2}

\* a state object that every call without a state entry would refer to
StateRefShared(call, entries) ==
    IF Truthy(BodyGet(entries, STATE_NAME)) THEN call ELSE 0

\* the object that context.state of a call refers to: JSON.parse(state) or the
\* literal { validated: {} }, each a new object at every call
StateRef(call, entries) == call

\* the context of a call, with the state its object holds now
Load(call) ==
    [context[call] EXCEPT !.state = heap[StateRef(call, body[call])]]

PairBodies ==
    {fields \o intent \o state :
        fields \in {<<Entry(Title, Str("x"))>>, <<Entry(Item(0), Str("a"))>>},
        intent \in {<<>>, IntentEntry(ValidateIntent(Item(0))),
                    IntentEntry(ListIntentOf("append", FALSE, 0, 0, 0))},
        state \in {<<>>, StateEntry(Flags({Title}))}}

PairCallers ==
    {[resolve |-> r, reject |-> {Undefined}, accept |-> {Undefined}] :
        r \in {NoErrors, Errors((Title :> Required))}}

InitPair ==
    /\ body \in [Calls -> PairBodies]
    /\ caller \in [Calls -> PairCallers]
    /\ pc = [call \in Calls |-> "start"]
    /\ context = [call \in Calls |-> Undefined]
    /\ received = [call \in Calls |-> Undefined]
    /\ resolved = [call \in Calls |-> Undefined]
    /\ calls = [call \in Calls |-> 0]
    /\ options = [call \in Calls |-> Undefined]
    /\ result = [call \in Calls |-> Undefined]
    /\ round = 1
    /\ heap = NoMap

\* parse up to the call of resolve, which runs without interruption: the
\* context is built, the intent applied, resolve called and its promise kept
ParseToResolve(call) ==
    /\ pc[call] = "start"
    /\ LET ref == StateRef(call, body[call])
           built == GetSubmissionContext(body[call])
           ctx == IF ref \in DOMAIN heap THEN [built EXCEPT !.state = heap[ref]]
                  ELSE built
       IN  IF GetSubmissionContextThrows(body[call]) \/ ApplyIntentThrows(ctx)
           THEN /\ pc' = [pc EXCEPT ![call] = "thrown"]
                /\ UNCHANGED <<context, received, resolved, calls, heap>>
           ELSE /\ context' = [context EXCEPT ![call] = ApplyIntentTo(ctx)]
                /\ heap' = Assign(heap, ref :> ApplyIntentTo(ctx).state)
                /\ received' = [received EXCEPT ![call] =
                                    [payload |-> ApplyIntentTo(ctx).payload,
                                     intent |-> IntentToken(ctx)]]
                /\ resolved' = [resolved EXCEPT ![call] = caller[call].resolve]
                /\ calls' = [calls EXCEPT ![call] = 1]
                /\ pc' = [pc EXCEPT ![call] = "pending"]
    /\ UNCHANGED <<body, caller, options, result, round>>

\* result.then(mergeResolveResult): the promise of a call settles once both
\* calls have been made
Settle(call) ==
    /\ pc[call] = "pending"
    /\ \A other \in Calls : pc[other] # "start"
    /\ context' = [context EXCEPT ![call] =
                        MergeResolveResultOf(Load(call), resolved[call])]
    /\ heap' = Assign(heap, StateRef(call, body[call])
                                :> MergeResolveResultOf(Load(call), resolved[call]).state)
    /\ pc' = [pc EXCEPT ![call] = "submission"]
    /\ UNCHANGED <<body, caller, received, resolved, calls, options, result, round>>

RejectOf(call, opts) ==
    /\ pc[call] = "submission"
    /\ options' = [options EXCEPT ![call] = opts]
    /\ result' = [result EXCEPT ![call] = RejectSubmission(Load(call), opts)]
    /\ pc' = [pc EXCEPT ![call] = "rejected"]
    /\ UNCHANGED <<body, caller, context, received, resolved, calls, round, heap>>

AcceptOf(call, opts) ==
    /\ pc[call] = "submission"
    /\ options' = [options EXCEPT ![call] = opts]
    /\ result' = [result EXCEPT ![call] = AcceptSubmission(Load(call), opts)]
    /\ pc' = [pc EXCEPT ![call] = "accepted"]
    /\ UNCHANGED <<body, caller, context, received, resolved, calls, round, heap>>

NextPair ==
    \/ \E call \in Calls : ParseToResolve(call)
    \/ \E call \in Calls : Settle(call)
    \/ \E call \in Calls : \E opts \in caller[call].reject : RejectOf(call, opts)
    \/ \E call \in Calls : \E opts \in caller[call].accept : AcceptOf(call, opts)

PairSpec == InitPair /\ [][NextPair]_vars

---------------------------------------------------------------------------
(* setState on its own, with the updater that returns what it is given *)

\* validation states: true and null entries at the title, at the list, at its
\* first two items and at their sub-field
TrackerStateNames == {Title, Todos, Item(0), Item(1), Sub(0), Sub(1)}

TrackerStates ==
    UNION {[names -> {True, Null}] : names \in SUBSET TrackerStateNames}

TrackerNames == {Title, Todos, Item(0), Item(1), Sub(0)}

InitSetState ==
    /\ body \in {StateEntry([validated |-> state]) : state \in TrackerStates}
    /\ caller = PlainCaller
    /\ pc = "setState"
    /\ context \in {[state |-> BodyGet(body, STATE_NAME).json, name |-> name] :
                        name \in TrackerNames}
    /\ received = Undefined
    /\ resolved = Undefined
    /\ calls = 0
    /\ options = Undefined
    /\ result = Undefined
    /\ round = 1
    /\ heap = NoMap

\* setState(state, name, (currentValue) => currentValue)
SetStateIdentity ==
    /\ pc = "setState"
    /\ result' = SetState(context.state.validated, context.name,
                          StateValue(context.state.validated, context.name))
    /\ pc' = "setStateDone"
    /\ UNCHANGED <<body, caller, context, received, resolved, calls, options, round, heap>>

NextSetState == SetStateIdentity

SetStateSpec == InitSetState /\ [][NextSetState]_vars

---------------------------------------------------------------------------
(* Vocabulary of the properties *)

\* the context as getSubmissionContext built it, before any intent
Incoming == GetSubmissionContext(body)

\* parse has gone past the intent without throwing
IntentApplied == pc \in {"resolve", "resolved", "submission", "rejected", "accepted"}

\* a Submission exists
Produced == pc \in {"submission", "rejected", "accepted"}

Messages(error, name) == IF name \in DOMAIN error THEN error[name] ELSE <<>>

ResultErrors(res) == IF "error" \in DOMAIN res THEN res.error ELSE NoMap

\* the messages the caller of reject passed in, by name
CallerErrors(opts) ==
    IF opts = Undefined THEN NoMap
    ELSE [name \in {<<>>} \cup DOMAIN opts.fieldErrors |->
            IF name \in DOMAIN opts.fieldErrors THEN opts.fieldErrors[name]
            ELSE opts.formErrors]

IsListIntent(intent) ==
    /\ intent # Null
    /\ intent.type = "list"
    /\ intent.payload.operation \in ListOperations

Items(value) == IF IsArray(value) THEN value.items ELSE <<>>

---------------------------------------------------------------------------
(* C1 *)

\* C1: reject never outputs an error that resolve reported for a name that is
\* not validated in the state of the same result: for every key of resolve's
\* error map that is not validated, the result carries under that key only
\* what the caller of reject passed in, so with no options the key is absent.
C1_UnvalidatedErrorsSuppressed ==
    pc = "rejected" =>
        \A name \in DOMAIN ErrorOf(resolved) :
            Validated(result.state, name) # True =>
                /\ Messages(ResultErrors(result), name) = Messages(CallerErrors(options), name)
                /\ options = Undefined => name \notin DOMAIN ResultErrors(result)

\* an error of resolve for a name that is not validated was left out
C1_Witness ==
    /\ pc = "rejected"
    /\ options = Undefined
    /\ \E name \in DOMAIN ErrorOf(resolved) :
        /\ ErrorOf(resolved)[name] # <<>>
        /\ Validated(result.state, name) # True
        /\ name \notin DOMAIN ResultErrors(result)
    /\ \E name \in DOMAIN ErrorOf(resolved) : name \in DOMAIN ResultErrors(result)

---------------------------------------------------------------------------
(* C2 *)

\* a submission with no intent for which resolve reports name, a name that was
\* not submitted and is not validated in the incoming state
ErrorOnUntouched(name) ==
    /\ pc = "rejected"
    /\ context.intent = Null
    /\ name \in DOMAIN ErrorOf(resolved)
    /\ ErrorOf(resolved)[name] # <<>>
    /\ \A i \in 1..Len(context.fields) : context.fields[i] # name
    /\ ~Truthy(Validated(Incoming.state, name))

\* C2 as stated: with no intent, an error of resolve for a name that was not
\* submitted and not validated before is omitted from the result of reject.
C2_UntouchedErrorOmitted ==
    \A name \in {<<>>, Title, Item(0)} :
        ErrorOnUntouched(name) => name \notin DOMAIN ResultErrors(result)

\* C2 amended: with no intent, such an error is in the result of reject, after
\* whatever the caller passed for that name, and the name is validated.
C2_UntouchedErrorShown ==
    \A name \in {<<>>, Title, Item(0)} :
        ErrorOnUntouched(name) =>
            /\ Messages(ResultErrors(result), name)
                    = Messages(CallerErrors(options), name) \o ErrorOf(resolved)[name]
            /\ Validated(result.state, name) = True

C2_Witness ==
    /\ ErrorOnUntouched(Title)
    /\ options = Undefined
    /\ ResultErrors(result)[Title] = Required

---------------------------------------------------------------------------
(* C3 *)

\* C3: with no intent, every submitted field name and every key of resolve's
\* error map is validated in the state of the Submission; with an intent, the
\* merge of resolve's result leaves the validation state as the intent left it.
C3_MergeMarksValidated ==
    Produced =>
        IF context.intent = Null
        THEN /\ \A i \in 1..Len(context.fields) :
                    Validated(context.state, context.fields[i]) = True
             /\ \A name \in DOMAIN ErrorOf(resolved) : Validated(context.state, name) = True
        ELSE context.state = ApplyIntentTo(Incoming).state

\* a submitted field and an error key that was not submitted, both validated
C3_Witness ==
    /\ pc = "submission"
    /\ context.intent = Null
    /\ Incoming.state.validated = NoMap
    /\ context.fields = <<Item(0)>>
    /\ DOMAIN context.error = {Title}
    /\ DOMAIN context.state.validated = {Item(0), Title}

---------------------------------------------------------------------------
(* C4 *)

\* the true flags of a validation state under prefix, relative to prefix
FlagsUnder(validated, prefix) ==
    {SubSeq(p, Len(prefix) + 1, Len(p)) :
        p \in {q \in DOMAIN validated : IsPrefix(q, prefix) /\ Truthy(validated[q])}}

\* where the items of a list of n items stand after the operation: the old
\* index of each item of the new list, and -1 for a new item
Moved(n, payload) ==
    UpdateList([i \in 1..n |-> i - 1], [payload EXCEPT !.defaultValue = -1])

\* the indices of the items that the state has flags for
FlaggedItems(validated, name) ==
    {p[Len(name) + 1].index :
        p \in {q \in DOMAIN validated : IsPrefix(q, name) /\ Len(q) > Len(name)}}

\* the indices of the operation are indices of a list of n items
InRange(n, payload) ==
    CASE payload.operation \in {"prepend", "append"} -> TRUE
      [] payload.operation = "insert" -> ~payload.hasIndex \/ payload.index \in 0..n
      [] payload.operation \in {"replace", "remove"} -> payload.index \in 0..(n - 1)
      [] payload.operation = "reorder" ->
            payload.from \in 0..(n - 1) /\ payload.to \in 0..(n - 1)

\* C4 as stated: after a list intent on L the flags of every surviving item
\* stand at the item's new index, and none stands past the end of the list,
\* whatever part of the list's items the incoming state has entries for
\* (here for the operations whose indices are within the list).
C4_FlagsFollowItems ==
    (/\ IntentApplied
     /\ IsListIntent(context.intent)
     /\ InRange(Len(Items(GetValue(Incoming.payload, context.intent.payload.name))),
                context.intent.payload)) =>
        LET L == context.intent.payload.name
            n == Len(Items(GetValue(Incoming.payload, L)))
            old == Incoming.state.validated
            new == context.state.validated
            moved == Moved(n, context.intent.payload)
        IN  (\A i \in FlaggedItems(old, L) : i < n) =>
                /\ \A j \in 1..Len(moved) :
                        moved[j] >= 0 =>
                            FlagsUnder(new, Append(L, Index(j - 1)))
                                = FlagsUnder(old, Append(L, Index(moved[j])))
                /\ \A j \in Len(moved)..(MaxLen + 1) :
                        FlagsUnder(new, Append(L, Index(j))) = {}

---------------------------------------------------------------------------
(* C5 *)

\* C5: after a validate(p) intent, a non-empty message list of resolve for p
\* is in the error map of reject's result under p (after what the caller of
\* reject passed for p), whatever the incoming validation state was.
C5_ValidateShowsError ==
    (pc = "rejected" /\ context.intent # Null /\ context.intent.type = "validate") =>
        LET p == context.intent.payload.text
        IN  (p \in DOMAIN ErrorOf(resolved) /\ ErrorOf(resolved)[p] # <<>>) =>
                Messages(ResultErrors(result), p)
                    = Messages(CallerErrors(options), p) \o ErrorOf(resolved)[p]

\* validate(title) on a title that was neither submitted nor validated before
C5_Witness ==
    /\ pc = "rejected"
    /\ context.intent = ValidateIntent(Title)
    /\ context.fields = <<>>
    /\ Incoming.state.validated = NoMap
    /\ options = Undefined
    /\ ErrorOf(resolved) = (Title :> Required)
    /\ ResultErrors(result) = (Title :> Required)

---------------------------------------------------------------------------
(* C6 *)

\* C6: a list intent on L applies the operation to the payload value at L,
\* from an empty sequence when the payload has nothing there, and leaves
\* validated[L] true; append puts the default after the items, prepend before
\* them, insert at its index, replace and remove act on the item at their index.
C6_ListIntentOnPayload ==
    (IntentApplied /\ IsListIntent(context.intent)) =>
        LET payload == context.intent.payload
            L == payload.name
            d == payload.defaultValue
            before == Items(GetValue(Incoming.payload, L))
            n == Len(before)
            after == GetValue(context.payload, L)
            at == payload.index
        IN  /\ Validated(context.state, L) = True
            /\ IsArray(after)
            /\ payload.operation = "append" => after.items = Append(before, d)
            /\ payload.operation = "prepend" => after.items = <<d>> \o before
            /\ (payload.operation = "insert" /\ ~payload.hasIndex) =>
                    after.items = Append(before, d)
            /\ (payload.operation = "insert" /\ payload.hasIndex /\ at \in 0..n) =>
                    after.items = SubSeq(before, 1, at) \o <<d>> \o SubSeq(before, at + 1, n)
            /\ (payload.operation = "replace" /\ at \in 0..(n - 1)) =>
                    after.items = [before EXCEPT ![at + 1] = d]
            /\ (payload.operation = "remove" /\ at \in 0..(n - 1)) =>
                    after.items = SubSeq(before, 1, at) \o SubSeq(before, at + 2, n)
            /\ (GetValue(Incoming.payload, L) = Undefined
                    /\ payload.operation \in {"append", "prepend", "insert"}) =>
                    after.items = <<d>>

\* append on todos = ['a', 'b'] gave ['a', 'b', default] and validated todos
C6_Witness ==
    /\ pc = "resolve"
    /\ IsListIntent(context.intent)
    /\ context.intent.payload.operation = "append"
    /\ Items(GetValue(Incoming.payload, Todos)) = <<Str("a"), Str("b")>>
    /\ Items(GetValue(context.payload, Todos)) = <<Str("a"), Str("b"), Str("new")>>
    /\ Todos \notin DOMAIN Incoming.state.validated
    /\ Validated(context.state, Todos) = True

---------------------------------------------------------------------------
(* C7 *)

\* C7 as stated: a replace or remove whose index is outside the target list
\* makes parse throw, so that no Submission is produced.
C7_OutOfRangeThrows ==
    (pc \notin {"start", "intent"} /\ context # Undefined /\ IsListIntent(context.intent)) =>
        LET payload == context.intent.payload
            target == GetValue(Incoming.payload, payload.name)
        IN  (/\ payload.operation \in {"replace", "remove"}
             /\ IsArray(ListOf(target))
             /\ payload.index \notin 0..(Len(Items(target)) - 1)) =>
                pc = "thrown"

---------------------------------------------------------------------------
(* C8 *)

\* an entry under one of the two reserved names carries a file
ReservedNameUsedForFile ==
    \E i \in 1..Len(body) :
        /\ body[i].name \in {INTENT, STATE_NAME}
        /\ body[i].value = File

\* C8 as stated: parse throws, and resolve is never called, whenever some entry
\* under a reserved name carries a file, wherever it stands among the entries
\* of that name.
C8_ReservedNameThrows ==
    ReservedNameUsedForFile =>
        /\ pc \in {"start", "thrown"}
        /\ calls = 0

---------------------------------------------------------------------------
(* C9 *)

\* the intent entry holds JSON of a type that is no intent type
UnknownIntentType ==
    LET intent == BodyGet(body, INTENT)
    IN  /\ IsString(intent)
        /\ "json" \in DOMAIN intent
        /\ intent.json.type \notin {"validate", "reset", "list"}

\* the entries hold a list intent on a name whose payload value is no sequence
ListTargetNotSequence ==
    /\ ~GetSubmissionContextThrows(body)
    /\ IsListIntent(Incoming.intent)
    /\ GetValue(Incoming.payload, Incoming.intent.payload.name).k
            \notin {"undefined", "null", "array"}

\* C9: an intent of unknown type, and a list intent whose target in the payload
\* is not a sequence, make parse throw before resolve is called: resolve is
\* called zero times and no Submission is produced.
C9_StructuralErrorBeforeResolve ==
    (UnknownIntentType \/ ListTargetNotSequence) =>
        /\ calls = 0
        /\ pc \in {"start", "intent", "thrown"}

\* parse threw on a list intent whose target is a text value
C9_Witness ==
    /\ pc = "thrown"
    /\ ListTargetNotSequence
    /\ context # Undefined
    /\ GetValue(context.payload, Todos) = Str("a")
    /\ calls = 0

---------------------------------------------------------------------------
(* C10 *)

\* the values of the entries of a name, in submission order
RECURSIVE ValuesOf(_, _)
ValuesOf(entries, name) ==
    IF entries = <<>> THEN <<>>
    ELSE IF Head(entries).name = name
         THEN <<Head(entries).value>> \o ValuesOf(Tail(entries), name)
         ELSE ValuesOf(Tail(entries), name)

\* C10 as stated: n >= 2 entries of one field name give the sequence of all n
\* values in submission order, for every choice of values, empty text included.
C10_DuplicatesCollapse ==
    (pc = "intent" /\ Len(ValuesOf(body, Title)) >= 2) =>
        /\ IsArray(GetValue(context.payload, Title))
        /\ GetValue(context.payload, Title).items = ValuesOf(body, Title)

---------------------------------------------------------------------------
(* C11 *)

IsReset(intent) == intent # Null /\ intent.type = "reset"

\* C11: a reset intent with no name hands resolve the empty payload, and the
\* submission carries it, whatever fields were submitted; the validation state
\* is empty when the intent has no validated option and is the incoming one
\* when it has; reject() on that submission has the status 'updated'.
C11_WholeFormReset ==
    (IntentApplied /\ IsReset(context.intent) /\ context.intent.payload.name = <<>>)
        => /\ context.payload = EmptyObj
           /\ received # Undefined => received.payload = EmptyObj
           /\ IF context.intent.payload.validated
              THEN context.state = Incoming.state
              ELSE context.state = [validated |-> NoMap]
           /\ Produced => CreateSubmission(context).payload = EmptyObj
           /\ pc = "rejected" =>
                /\ result.status = "updated"
                /\ result.state = context.state

C11_Witness ==
    /\ pc = "rejected"
    /\ IsReset(context.intent)
    /\ context.intent.payload.name = <<>>
    /\ ~context.intent.payload.validated
    /\ Incoming.fields # <<>>
    /\ Incoming.state.validated # NoMap
    /\ received.payload = EmptyObj
    /\ context.state.validated = NoMap
    /\ result.status = "updated"

---------------------------------------------------------------------------
(* C12 *)

\* C12: a reset intent with a name and without the validated option removes
\* the validation entry at the name and at every path under it and leaves every
\* other entry as it was; with the validated option the validation state is
\* unchanged; in both cases the payload holds nothing at the name.
C12_NamedResetClearsSubtree ==
    (IntentApplied /\ IsReset(context.intent) /\ context.intent.payload.name # <<>>)
        => LET name == context.intent.payload.name
               old == Incoming.state.validated
               new == context.state.validated
           IN  /\ GetValue(context.payload, name) = Undefined
               /\ IF context.intent.payload.validated
                  THEN new = old
                  ELSE /\ DOMAIN new = {key \in DOMAIN old : ~IsPrefix(key, name)}
                       /\ \A key \in DOMAIN new : new[key] = old[key]

C12_Witness ==
    /\ pc = "resolve"
    /\ context.intent = ResetIntentOf(Item(0), FALSE)
    /\ GetValue(Incoming.payload, Item(0)) = Str("a")
    /\ Incoming.state.validated = Flags({Title, Todos, Item(0), Item(1), Sub(0)}).validated
    /\ context.state.validated = Flags({Title, Todos, Item(1)}).validated
    /\ GetValue(context.payload, Item(0)) = Undefined
    /\ GetValue(context.payload, Item(1)) = Str("b")

---------------------------------------------------------------------------
(* C13 *)

IsValidate(intent) == intent # Null /\ intent.type = "validate"

\* C13: a validate intent on a path leaves the payload as it was built from
\* the submitted entries, and the outgoing validation state is the incoming
\* one with the entry of that path set to true: every other entry is as it came
\* in and no other submitted field has become validated.
C13_ValidateTouchesOnePath ==
    (Produced /\ IsValidate(context.intent))
        => LET name == context.intent.payload.text
               old == Incoming.state.validated
               new == context.state.validated
           IN  /\ context.payload = Incoming.payload
               /\ received.payload = Incoming.payload
               /\ DOMAIN new = DOMAIN old \cup {name}
               /\ new[name] = True
               /\ \A key \in DOMAIN old \ {name} : new[key] = old[key]
               /\ \A i \in 1..Len(context.fields) :
                    (context.fields[i] # name /\ context.fields[i] \notin DOMAIN old)
                        => context.fields[i] \notin DOMAIN new

C13_Witness ==
    /\ pc = "submission"
    /\ context.intent = ValidateIntent(Title)
    /\ context.fields = <<Title, Item(0)>>
    /\ ErrorOf(resolved) = (Item(0) :> Required)
    /\ Incoming.state.validated = NoMap
    /\ context.state.validated = (Title :> True)

---------------------------------------------------------------------------
(* C14 *)

\* the sequence without its item at index i (counted from 0)
Dropped(list, i) == SubSeq(list, 1, i) \o SubSeq(list, i + 2, Len(list))

IsReorder(intent) == IsListIntent(intent) /\ intent.payload.operation = "reorder"

\* C14: on a list of n items and for from, to within 0..n-1, reorder puts the
\* item that stood at from at index to and keeps the order of the other items;
\* reorder(to, from) applied to the outcome gives the list back; reorder with
\* from = to changes nothing.
C14_ReorderMovesAndInverts ==
    (/\ IntentApplied
     /\ IsReorder(context.intent)
     /\ InRange(Len(Items(GetValue(Incoming.payload, context.intent.payload.name))),
                context.intent.payload)) =>
        LET payload == context.intent.payload
            before == Items(GetValue(Incoming.payload, payload.name))
            after == Items(GetValue(context.payload, payload.name))
            back == [payload EXCEPT !.from = payload.to, !.to = payload.from]
        IN  /\ Len(after) = Len(before)
            /\ after[payload.to + 1] = before[payload.from + 1]
            /\ Dropped(after, payload.to) = Dropped(before, payload.from)
            /\ UpdateList(after, back) = before
            /\ payload.from = payload.to => after = before

C14_Witness ==
    /\ pc = "resolve"
    /\ IsReorder(context.intent)
    /\ context.intent.payload.from = 0
    /\ context.intent.payload.to = 2
    /\ Items(GetValue(Incoming.payload, Todos)) = <<Str("a"), Str("b"), Str("c")>>
    /\ Items(GetValue(context.payload, Todos)) = <<Str("b"), Str("c"), Str("a")>>

---------------------------------------------------------------------------
(* C15 *)

\* C15: after setState(state, p, identity) every entry at a path strictly
\* under p is at the same path with the same value, also when a path and a
\* path under it both had entries, and the entries at paths that are neither p
\* nor under p are the same as before: none added, removed or changed.
C15_IdentityKeepsEntries ==
    pc = "setStateDone" =>
        LET name == context.name
            old == context.state.validated
            new == result
        IN  /\ \A key \in DOMAIN old :
                    (IsPrefix(key, name) /\ key # name)
                        => key \in DOMAIN new /\ new[key] = old[key]
            /\ {key \in DOMAIN new : ~IsPrefix(key, name)}
                    = {key \in DOMAIN old : ~IsPrefix(key, name)}
            /\ \A key \in DOMAIN old : ~IsPrefix(key, name) => new[key] = old[key]

C15_Witness ==
    /\ pc = "setStateDone"
    /\ context.name = Todos
    /\ context.state.validated = Flags({Title, Item(0), Sub(0), Sub(1)}).validated
    /\ \A key \in {Title, Item(0), Sub(0), Sub(1)} : key \in DOMAIN result /\ result[key] = True
    /\ Item(1) \in DOMAIN result

---------------------------------------------------------------------------
(* C17 *)

\* the field errors the caller of reject passed in
FieldErrorsOf(opts) == IF opts = Undefined THEN NoMap ELSE opts.fieldErrors

\* C17 as stated: every field path of the error map of reject()'s result,
\* other than the form-level key, is marked validated in the result's state,
\* whether its messages come from resolve or from the caller's fieldErrors.
C17_EveryErrorPathValidated ==
    pc = "rejected" =>
        \A name \in DOMAIN ResultErrors(result) \ {<<>>} :
            Validated(result.state, name) = True

\* C17, amended: every field path of the error map of reject()'s result, other
\* than the form-level key, is marked validated in the result's state or is a
\* path of the caller's fieldErrors; the messages of resolve appear only under
\* validated paths, the caller's appear whatever the state says.
C17_ErrorPathValidatedOrGiven ==
    pc = "rejected" =>
        /\ \A name \in DOMAIN ResultErrors(result) \ {<<>>} :
                \/ Validated(result.state, name) = True
                \/ name \in DOMAIN FieldErrorsOf(options)
        /\ \A name \in DOMAIN FieldErrorsOf(options) :
                FieldErrorsOf(options)[name] # <<>>
                    => /\ name \in DOMAIN ResultErrors(result)
                       /\ SubSeq(ResultErrors(result)[name], 1,
                                 Len(FieldErrorsOf(options)[name]))
                            = FieldErrorsOf(options)[name]

C17_Witness ==
    /\ pc = "rejected"
    /\ context.intent = ValidateIntent(Item(0))
    /\ ErrorOf(resolved) = (Title :> Required) @@ (Item(0) :> Required)
    /\ FieldErrorsOf(options) = (Title :> <<"Taken">>)
    /\ Validated(result.state, Title) = Undefined
    /\ ResultErrors(result) = (Title :> <<"Taken">>) @@ (Item(0) :> Required)

---------------------------------------------------------------------------
(* C18 *)

\* the payload and the validation state once the intent has been applied
AfterIntent == ApplyIntentTo(Incoming)

\* the text 'submit', 'validate/' and the path as it is, or the type, a slash
\* and the JSON text of the payload
TokenOf(intent) ==
    IF intent = Null THEN [k |-> "string", s |-> "submit"]
    ELSE IF intent.type = "validate"
    THEN [k |-> "string", type |-> "validate", raw |-> intent.payload.text]
    ELSE [k |-> "string", type |-> intent.type, json |-> intent.payload]

\* C18: a parse that succeeds calls resolve once: not before the intent has
\* been applied to the payload and to the validation state, and before the
\* submitted and the erroring fields are marked validated. resolve is given the
\* payload as the intent left it and the token 'submit' with no intent,
\* 'validate/<path>' for a validate intent, '<type>/<JSON of the payload>' for
\* a reset or a list intent. A parse that throws has not called it.
C18_ResolveOnceAfterIntent ==
    /\ pc \in {"start", "intent", "resolve", "thrown"} => calls = 0 /\ received = Undefined
    /\ pc \in {"resolved", "submission", "rejected", "accepted"} =>
            /\ calls = 1
            /\ received.payload = AfterIntent.payload
            /\ received.intent = TokenOf(Incoming.intent)
    /\ pc = "resolved" =>
            /\ context.payload = AfterIntent.payload
            /\ context.state = AfterIntent.state
    /\ pc = "submission" =>
            context.state.validated =
                MarkValidated(AfterIntent.state.validated,
                              MergedNames(AfterIntent, ErrorOf(resolved)))

C18_Witness ==
    /\ pc = "resolved"
    /\ calls = 1
    /\ context.intent = Null
    /\ context.fields = <<Title>>
    /\ ErrorOf(resolved) = (Title :> Required)
    /\ received = [payload |-> Incoming.payload, intent |-> Str("submit")]
    /\ context.state.validated = NoMap

\* resolve has been given the token of a list intent and the list as the
\* intent left it
C18_ListWitness ==
    /\ pc = "submission"
    /\ calls = 1
    /\ IsReorder(context.intent)
    /\ received.intent.type = "list"
    /\ received.intent.json = context.intent.payload
    /\ Items(GetValue(Incoming.payload, Todos)) = <<Str("a"), Str("b")>>
    /\ Items(GetValue(received.payload, Todos)) = <<Str("b"), Str("a")>>

---------------------------------------------------------------------------
(* C20 *)

PutsNewItem(intent) ==
    /\ IsListIntent(intent)
    /\ intent.payload.operation \in {"insert", "prepend", "append", "replace"}

\* the index of the new item in a list that had n items
NewSlot(n, payload) ==
    CHOOSE k \in 0..n : Moved(n, payload)[k + 1] = -1

\* C20 as stated: after a list intent that puts a new item in the list L, the
\* outgoing state has no true entry at the slot of L that holds the new item
\* nor at any path under that slot.
C20_NewSlotUnflagged ==
    (IntentApplied /\ PutsNewItem(context.intent)) =>
        LET payload == context.intent.payload
            n == Len(Items(GetValue(Incoming.payload, payload.name)))
            slot == Append(payload.name, Index(NewSlot(n, payload)))
        IN  /\ GetValue(context.payload, slot) = payload.defaultValue
            /\ \A key \in DOMAIN context.state.validated :
                    IsPrefix(key, slot) => context.state.validated[key] # True

---------------------------------------------------------------------------
(* C19 *)

\* the intents under which a flag at path is said to stay: no intent, validate,
\* a reset with the validated option, a reset whose name is neither the path
\* nor above it, a list intent on a path that is not strictly above it
KeepsFlag(intent, path) ==
    \/ intent = Null
    \/ IsValidate(intent)
    \/ /\ IsReset(intent)
       /\ \/ intent.payload.validated
          \/ intent.payload.name # <<>> /\ ~IsPrefix(path, intent.payload.name)
    \/ /\ IsListIntent(intent)
       /\ ~(IsPrefix(path, intent.payload.name) /\ path # intent.payload.name)

\* C19: through submissions that each take up the state of the result before,
\* a path whose flag is true in the incoming state has it true in the outgoing
\* state of every submission with no intent, with a validate intent, with a
\* reset that has the validated option, with a reset named neither the path
\* nor a path above it, and with a list intent on a path not strictly above
\* it; the state of the result is that outgoing state. So the flag is lost
\* only to a reset that covers the path or to a list intent above it.
C19_FlagsStay ==
    /\ Produced =>
            \A path \in DOMAIN Incoming.state.validated :
                (Incoming.state.validated[path] = True /\ KeepsFlag(context.intent, path))
                    => Validated(context.state, path) = True
    /\ (pc \in {"rejected", "accepted"} /\ "state" \in DOMAIN result) =>
            result.state = context.state

C19_Witness ==
    /\ round = MaxRounds
    /\ pc = "rejected"
    /\ IsListIntent(context.intent)
    /\ context.intent.payload.operation = "prepend"
    /\ context.intent.payload.name = Todos
    /\ Validated(Incoming.state, Todos) = True
    /\ Validated(Incoming.state, Title) = True
    /\ Validated(Incoming.state, Item(0)) = True
    /\ Validated(result.state, Todos) = True
    /\ Validated(result.state, Title) = True
    /\ Validated(result.state, Item(0)) # True

---------------------------------------------------------------------------
(* C16 *)

\* what a call gives when it runs alone: the context at the call of resolve,
\* and the context once its promise has settled
AloneToResolve(call) == ApplyIntentTo(GetSubmissionContext(body[call]))
Alone(call) == MergeResolveResultOf(AloneToResolve(call), caller[call].resolve)

\* C16: with the resolve steps of two parse calls pending at the same time,
\* and whichever settles first, the payload, the validation state and the
\* error map of each call, and what its reject and accept return, are those
\* of the call running alone.
C16_CallsIndependent ==
    \A call \in Calls :
        /\ pc[call] = "pending" => Load(call) = AloneToResolve(call)
        /\ pc[call] \in {"submission", "rejected", "accepted"} =>
                Load(call) = Alone(call)
        /\ pc[call] = "rejected" =>
                result[call] = RejectSubmission(Alone(call), options[call])
        /\ pc[call] = "accepted" =>
                result[call] = AcceptSubmission(Alone(call), options[call])

\* both calls came without a state entry; the first has settled, marked its
\* field and been rejected while the second, with another field, is pending
C16_Witness ==
    /\ pc = <<"rejected", "pending">>
    /\ \A call \in Calls : ~Truthy(BodyGet(body[call], STATE_NAME))
    /\ context[1].intent = Null /\ context[1].fields = <<Title>>
    /\ context[2].intent = Null /\ context[2].fields = <<Item(0)>>
    /\ result[1].state.validated = (Title :> True)
    /\ Load(2).state.validated = NoMap

=============================================================================
